---- MODULE Spec2Model ----
(***************************************************************************)
(* Conversation routing and human handoff of the chat platform:            *)
(*   backend/app/services/handoff_service.py   (Handoff Coordinator)       *)
(*   backend/app/api/routes/handoff.py         (REST surface of handoff)   *)
(*   backend/app/api/routes/chat.py            (relay loop, REST send)     *)
(*   backend/app/services/chat_service.py      (message processing)        *)
(*   backend/app/services/credits_service.py   (credit deduction)          *)
(*                                                                         *)
(* The relational store holds the committed rows.  Every handler runs on   *)
(* its own ORM session: a row it has loaded stays in the session's         *)
(* identity map (a snapshot) until the session commits (expire_on_commit)  *)
(* or refreshes it, and a commit writes only the columns whose assigned    *)
(* value differs from the snapshot.  A handler is a sequence of steps, one *)
(* per store round trip or await.                                          *)
(*                                                                         *)
(* The steps are specified under these deployments and projections:       *)
(*   Spec         one server process, one event loop: the synchronous code *)
(*                between two awaits runs to completion before another     *)
(*                handler is resumed;                                      *)
(*   SpecWorkers  the handoff endpoints served by several worker processes *)
(*                on the same store: the steps of different handlers       *)
(*                interleave at every store round trip;                    *)
(*   SpecRegistry the connection registry of one server process            *)
(*                (backend/app/services/websocket_manager.py) under the    *)
(*                relay loops that connect, are sent to and disconnect;    *)
(*   SpecBinding  the relay loops that bind a conversation to their        *)
(*                session on its first message;                            *)
(*   SpecCredits  the automated path of relay loops served by several      *)
(*                worker processes, sharing the credit balance;            *)
(*   SpecDetails  the customer columns of a conversation under detail      *)
(*                extraction and the REST send endpoint;                   *)
(*   SpecTopics   topic classification tasks (backend/app/tasks.py) on the *)
(*                Celery workers and the feedback endpoint.                *)
(***************************************************************************)
EXTENDS Integers, Sequences, FiniteSets, TLC

\* ------------------------------------------------------------------ universe
Procs == {"p1", "p2"}          \* handler invocations that can be in flight
Convs == {"c1", "c2"}          \* conversation uuids a caller can name
InitConvs == {"c1"}            \* the conversations that exist at the start
Users == {"u1", "u2"}          \* authenticated operators (workspace members)
None  == "None"                \* Python None / SQL NULL
WebSockets == {"w1", "w2", "w3"}                \* accepted connections
SessionIds == {"s1", "s2", "dashboard_d1"}      \* the session_id query parameter
DashboardSessionIds == {"dashboard_d1"}         \* session_id.startswith("dashboard_")
Chatbots == {"b1", "b2"}                        \* the chatbot_uuid path parameter
ClientIds == {"k1"}                             \* the client_uuid query parameter

MaxCalls == 3                  \* handler invocations started in one behaviour
InitCredits == 1               \* message credits of the workspace owner at start

VARIABLES
    conversations,     \* table conversations: uuid -> row
    handoff_requests,  \* table handoff_requests: sequence, id = index
    messages,          \* table messages: sequence, id = index
    credits,           \* users.message_credits_remaining of the workspace owner
    pc,                \* per handler: the step it executes next
    ctx,               \* per handler: arguments, locals and the session's identity map
    ret,               \* the response of the call that completed in the last step
    accept_returns,    \* per request id: successful returns of accept_handoff_request
    deployment,        \* "event_loop" (one process) or "workers" (several)
    calls,             \* handler invocations started so far
    topic_stats,       \* table topic_stats: topic -> message_count
    active_connections,     \* ConnectionManager: session_id -> set of connections
    dashboard_connections,  \* ConnectionManager: chatbot_uuid -> set of connections
    dashboard_session_map,  \* ConnectionManager: session_id -> chatbot_uuid
    websockets,        \* per connection: its relay loop and its socket
    sending,           \* the manager call that is iterating over connections
    sent               \* the manager call that returned in the last step

\* the state of the handlers and the store
handlers == <<conversations, handoff_requests, messages, credits, pc, ctx, ret,
              accept_returns, deployment, calls, topic_stats>>

\* the state of the connection manager and the relay loops
registry == <<active_connections, dashboard_connections, dashboard_session_map,
              websockets, sending, sent>>

vars == <<conversations, handoff_requests, messages, credits, pc, ctx, ret,
          accept_returns, deployment, calls, topic_stats,
          active_connections, dashboard_connections, dashboard_session_map,
          websockets, sending, sent>>

\* ------------------------------------------------------------------ rows
\* models.py Conversation: status/handoff_status/assigned_to_user_uuid/updated_at
\* and the customer columns (customer_name defaults to "Anonymous");
\* the conversation that exists at the start is the active one of session s1
NewConversation ==
    [present |-> TRUE, handoff_status |-> "ai",
     assigned_to_user_uuid |-> None, updated_at |-> 0,
     chatbot_uuid |-> "b1", session_id |-> "s1", client_uuid |-> "k1",
     status |-> "active",
     customer_name |-> "Anonymous", customer_email |-> None,
     customer_phone |-> None]

\* a conversation row that is not in the table
NoConversation ==
    [present |-> FALSE, handoff_status |-> "ai",
     assigned_to_user_uuid |-> None, updated_at |-> 0,
     chatbot_uuid |-> None, session_id |-> None, client_uuid |-> None,
     status |-> None,
     customer_name |-> None, customer_email |-> None, customer_phone |-> None]

\* models.py HandoffRequest
NewHandoffRequest(c, reason) ==
    [conversation_uuid |-> c, status |-> "pending", accepted_at |-> 0,
     accepted_by_user_uuid |-> None, reason |-> reason]

NoHandoffRequest ==
    [conversation_uuid |-> None, status |-> None, accepted_at |-> 0,
     accepted_by_user_uuid |-> None, reason |-> None]

\* models.py Message: topic and feedback are NULL until set
NewMessage(c, role) ==
    [conversation_uuid |-> c, role |-> role, topic |-> None, feedback |-> None]

\* the topics the classifier names; "" is an empty classification
Topics == {"billing", "shipping"}

RequestIds == DOMAIN handoff_requests

\* select(HandoffRequest).where(conversation_uuid == c).where(status == "pending")
PendingOf(c) ==
    {r \in RequestIds : /\ handoff_requests[r].conversation_uuid = c
                        /\ handoff_requests[r].status = "pending"}

RequestsOf(c) == {r \in RequestIds : handoff_requests[r].conversation_uuid = c}

HasMessages(c) == \E i \in DOMAIN messages : messages[i].conversation_uuid = c

\* ------------------------------------------------------------------ handler context
IdleCtx ==
    [op |-> "none", conversation_uuid |-> None, handoff_request_id |-> 0,
     user_uuid |-> None, reason |-> None,
     loaded |-> {}, sconv |-> [c \in Convs |-> NoConversation],
     shr |-> NoHandoffRequest,
     requests |-> {}, todo |-> {},
     scredits |-> 0, explicit |-> FALSE, should_offer_handoff |-> FALSE,
     arrival |-> None, generated |-> FALSE, deducted |-> FALSE,
     persisted |-> FALSE, ai_added |-> FALSE,
     frames |-> <<>>, broadcasts |-> <<>>,
     detail |-> None, error_message |-> None, message_id |-> 0]

NoRet ==
    [proc |-> None, op |-> "none", status |-> None, conversation_uuid |-> None,
     handoff_request_id |-> 0, user_uuid |-> None, reason |-> None,
     arrival |-> None, explicit |-> FALSE, generated |-> FALSE,
     deducted |-> FALSE, persisted |-> FALSE,
     frames |-> <<>>, broadcasts |-> <<>>,
     detail |-> None, error_message |-> None, requests |-> {}]

\* the response of a finished call, built from the handler's context
Response(p, k, status) ==
    [proc |-> p, op |-> k.op, status |-> status, conversation_uuid |-> k.conversation_uuid,
     handoff_request_id |-> k.handoff_request_id, user_uuid |-> k.user_uuid,
     reason |-> k.reason, arrival |-> k.arrival, explicit |-> k.explicit, generated |-> k.generated,
     deducted |-> k.deducted, persisted |-> k.persisted,
     frames |-> k.frames, broadcasts |-> k.broadcasts,
     detail |-> k.detail, error_message |-> k.error_message,
     requests |-> k.requests]

\* a connection the server has not accepted yet
NewWebSocket ==
    [state |-> "new", session_id |-> None, chatbot_uuid |-> None,
     client_uuid |-> None, conversation |-> None, broken |-> FALSE]

\* no manager call
NoCall ==
    [op |-> "none", key |-> None, connections |-> {}, todo |-> {},
     delivered |-> {}, failed |-> {}]

InitStoreOf(ms) ==
    /\ conversations = [c \in Convs |-> IF c \in InitConvs THEN NewConversation
                                         ELSE NoConversation]
    /\ handoff_requests = <<>>
    /\ messages = ms
    /\ credits = InitCredits
    /\ pc = [p \in Procs |-> "idle"]
    /\ ctx = [p \in Procs |-> IdleCtx]
    /\ ret = NoRet
    /\ accept_returns = <<>>
    /\ calls = 0
    /\ topic_stats = [t \in Topics |-> 0]
    /\ active_connections = [s \in {} |-> {}]
    /\ dashboard_connections = [b \in {} |-> {}]
    /\ dashboard_session_map = [s \in {} |-> None]
    /\ websockets = [w \in WebSockets |-> NewWebSocket]
    /\ sending = NoCall
    /\ sent = NoCall

\* the store with conversation c1 and no message yet
InitStore == InitStoreOf(<<>>)

Init == InitStore /\ deployment = "event_loop"

InitWorkers == InitStore /\ deployment = "workers"

\* ------------------------------------------------------------------ scheduling
\* a handler that is not running: it waits for a request, or for an await that
\* leaves the event loop (a websocket send, the classifier, the generator)
Suspended(p) == pc[p] \in {"idle", "typing", "stream_message", "process_message"}

\* On one event loop a handler takes a step only when every other handler is
\* suspended; worker processes step independently of each other.
Turn(p) == deployment = "workers" \/ \A q \in Procs \ {p} : Suspended(q)

\* a request reaches the server and its handler starts
Start(p) ==
    /\ Turn(p)
    /\ pc[p] = "idle"
    /\ calls < MaxCalls
    /\ calls' = calls + 1
    /\ UNCHANGED <<deployment, topic_stats>>
    /\ UNCHANGED registry

\* a started handler takes its step at label
Resume(p, label) ==
    /\ Turn(p)
    /\ pc[p] = label
    /\ UNCHANGED <<calls, deployment, topic_stats>>
    /\ UNCHANGED registry

\* ------------------------------------------------------------------ ORM session
\* session.exec(select(Conversation).where(uuid == c)).first(): None when the row
\* is gone; the identity-mapped object (its snapshot) when the session holds it
\* unexpired; the committed row otherwise.
LoadConversation(k, c) ==
    IF ~conversations[c].present THEN NoConversation
    ELSE IF c \in k.loaded THEN k.sconv[c]
    ELSE conversations[c]

\* the context after that load
WithConversation(k, c) ==
    IF ~conversations[c].present THEN k
    ELSE [k EXCEPT !.loaded = @ \cup {c}, !.sconv[c] = LoadConversation(k, c)]

\* session.commit(): expire_on_commit drops every snapshot
Expired(k) ==
    [k EXCEPT !.loaded = {}, !.sconv = [c \in Convs |-> NoConversation],
              !.shr = NoHandoffRequest]

\* The UPDATE a flush emits for a conversation whose handoff_status and
\* assigned_to_user_uuid were assigned hs and au: only the columns whose value
\* differs from the snapshot are written; updated_at is stamped when it was
\* assigned (touch) or, by its onupdate, when any column is written.
FlushConversation(row, snap, hs, au, touch) ==
    LET whs == hs # snap.handoff_status
        wau == au # snap.assigned_to_user_uuid
    IN  IF ~(whs \/ wau \/ touch) THEN row
        ELSE [row EXCEPT !.handoff_status = IF whs THEN hs ELSE @,
                         !.assigned_to_user_uuid = IF wau THEN au ELSE @,
                         !.updated_at = @ + 1]

\* the handler returns (or raises): its response is visible in the next state
FinishWith(p, k, status) ==
    /\ pc' = [pc EXCEPT ![p] = "idle"]
    /\ ret' = Response(p, k, status)
    /\ ctx' = [ctx EXCEPT ![p] = IdleCtx]

\* the handler goes on to its next step
Goto(p, k, label) ==
    /\ pc' = [pc EXCEPT ![p] = label]
    /\ ctx' = [ctx EXCEPT ![p] = k]
    /\ ret' = NoRet


\* ------------------------------------------------------------------ Handoff Coordinator
\* what the caller of create_handoff_request does with the request it got back
AfterCreate(p, k) ==
    CASE k.op = "create" -> FinishWith(p, k, "ok")
      [] k.op = "takeover" ->
            IF k.shr.status = "pending"
            THEN Goto(p, k, "accept_select")
            ELSE FinishWith(p, k, "ok")
      [] k.op = "pending" ->
            LET k2 == [k EXCEPT !.requests = @ \cup {k.handoff_request_id},
                                !.todo = @ \ {k.conversation_uuid}]
            IN  IF k2.todo = {}
                THEN FinishWith(p, k2, "ok")
                ELSE \E c \in k2.todo :
                        Goto(p, [k2 EXCEPT !.conversation_uuid = c], "create_select")
      [] OTHER -> Goto(p, k, "process_message_commit")

\* what the caller does when create_handoff_request raises
AfterCreateError(p, k) ==
    CASE k.op = "pending" ->
            LET k2 == [k EXCEPT !.todo = @ \ {k.conversation_uuid}]
            IN  IF k2.todo = {}
                THEN FinishWith(p, k2, "ok")
                ELSE \E c \in k2.todo :
                        Goto(p, [k2 EXCEPT !.conversation_uuid = c], "create_select")
      [] OTHER -> FinishWith(p, k, "IntegrityError")

\* a create_handoff_request that does not look for an existing pending request
create_handoff_request_unchecked(p) ==
    /\ Resume(p, "create_select")
    /\ Goto(p, ctx[p], "create_commit")
    /\ UNCHANGED <<conversations, handoff_requests, messages, credits, accept_returns>>

\* HandoffService.create_handoff_request, lines 18-26: the existing pending request
\* of the conversation, if any, is returned as it is
create_handoff_request_select(p) ==
    /\ Resume(p, "create_select")
    /\ LET k == ctx[p]
           existing == PendingOf(k.conversation_uuid)
       IN  IF existing # {}
           THEN \E r \in existing :
                   AfterCreate(p, [k EXCEPT !.handoff_request_id = r,
                                            !.shr = handoff_requests[r]])
           ELSE Goto(p, k, "create_commit")
    /\ UNCHANGED <<conversations, handoff_requests, messages, credits, accept_returns>>

\* the conversation row as create_handoff_request leaves it (lines 36-42)
RequestedConversation(row, snap) ==
    FlushConversation(row, snap, "requested", snap.assigned_to_user_uuid, FALSE)

\* HandoffService.create_handoff_request, lines 28-48: one commit inserts the
\* request and updates the conversation
create_handoff_request_commit(p) ==
    /\ Resume(p, "create_commit")
    /\ LET k == ctx[p]
           c == k.conversation_uuid
           snap == LoadConversation(k, c)
           id == Len(handoff_requests) + 1
           row == NewHandoffRequest(c, k.reason)
       IN  IF ~conversations[c].present
           THEN \* the foreign key handoff_requests.conversation_uuid rejects the INSERT
                /\ AfterCreateError(p, Expired(k))
                /\ UNCHANGED <<conversations, handoff_requests, messages,
                               accept_returns>>
           ELSE /\ conversations' =
                      [conversations EXCEPT ![c] = RequestedConversation(@, snap)]
                /\ handoff_requests' = Append(handoff_requests, row)
                /\ accept_returns' = Append(accept_returns, 0)
                /\ messages' = IF k.ai_added
                               THEN Append(messages, NewMessage(c, "assistant"))
                               ELSE messages
                /\ AfterCreate(p, [Expired(k) EXCEPT !.handoff_request_id = id,
                                                     !.shr = row,
                                                     !.ai_added = FALSE,
                                                     !.persisted = k.persisted \/ k.ai_added])
    /\ UNCHANGED credits

\* POST /handoff/request (handoff.py:70-90)
create_handoff_request(p) ==
    /\ Start(p)
    /\ \E c \in Convs, reason \in {"customer", None} :
          LET k == [IdleCtx EXCEPT !.op = "create", !.conversation_uuid = c,
                                   !.reason = reason]
          IN  IF ~conversations[c].present
              THEN FinishWith(p, k, "Conversation not found")
              ELSE Goto(p, WithConversation(k, c), "create_select")
    /\ UNCHANGED <<conversations, handoff_requests, messages, credits, accept_returns>>

\* an accept_handoff_request that does not look at the status of the request
AcceptSelectAnyStatus(p, k) ==
    LET r == k.handoff_request_id
    IN  IF r \notin RequestIds
        THEN FinishWith(p, k, "Handoff request not found")
        ELSE Goto(p, [k EXCEPT !.shr = handoff_requests[r]], "accept_commit")

\* HandoffService.accept_handoff_request, lines 57-65: the request as the session
\* sees it (the object it already holds, else the committed row) must be pending
AcceptSelect(p, k) ==
    LET r == k.handoff_request_id
        row == IF k.shr # NoHandoffRequest THEN k.shr ELSE handoff_requests[r]
    IN  IF r \notin RequestIds
        THEN FinishWith(p, k, "Handoff request not found")
        ELSE IF row.status # "pending"
        THEN FinishWith(p, k, "Handoff request is already accepted")
        ELSE Goto(p, [k EXCEPT !.shr = row], "accept_commit")

\* POST /handoff/accept (handoff.py:206-217)
accept_handoff_request(p) ==
    /\ Start(p)
    /\ \E r \in 1..(Len(handoff_requests) + 1), u \in Users :
          AcceptSelect(p, [IdleCtx EXCEPT !.op = "accept", !.handoff_request_id = r,
                                          !.user_uuid = u])
    /\ UNCHANGED <<conversations, handoff_requests, messages, credits, accept_returns>>

\* accept_handoff_request called by take_over_conversation (handoff.py:345-350)
accept_handoff_request_select(p) ==
    /\ Resume(p, "accept_select")
    /\ AcceptSelect(p, ctx[p])
    /\ UNCHANGED <<conversations, handoff_requests, messages, credits, accept_returns>>

\* the request row as accept_handoff_request leaves it (lines 68-70)
AcceptedRequest(row, u) ==
    [row EXCEPT !.status = "accepted", !.accepted_at = @ + 1,
                !.accepted_by_user_uuid = u]

\* an accept_handoff_request that leaves the conversation as it is
UnassignedConversation(row, snap, u) == row

\* the conversation row as accept_handoff_request leaves it (lines 73-80)
AssignedConversation(row, snap, u) ==
    IF snap.present THEN FlushConversation(row, snap, "human", u, FALSE) ELSE row

\* HandoffService.accept_handoff_request, lines 67-86: one commit writes the
\* request and the conversation
accept_handoff_request_commit(p) ==
    /\ Resume(p, "accept_commit")
    /\ LET k == ctx[p]
           r == k.handoff_request_id
           u == k.user_uuid
           c == k.shr.conversation_uuid
           snap == LoadConversation(k, c)
       IN  /\ handoff_requests' =
                 [handoff_requests EXCEPT ![r] = AcceptedRequest(@, u)]
           /\ conversations' =
                 [conversations EXCEPT ![c] = AssignedConversation(@, snap, u)]
           /\ accept_returns' = [accept_returns EXCEPT ![r] = @ + 1]
           /\ FinishWith(p, [k EXCEPT !.conversation_uuid = c], "ok")
    /\ UNCHANGED <<messages, credits>>

\* what the store says of the conversation's response authority
Authority(c) ==
    IF conversations[c].present THEN conversations[c].handoff_status ELSE None

\* POST /handoff/takeover (handoff.py:306-326): the conversation must exist
take_over_conversation(p) ==
    /\ Start(p)
    /\ \E c \in Convs, u \in Users :
          LET k == [IdleCtx EXCEPT !.op = "takeover", !.conversation_uuid = c,
                                   !.user_uuid = u, !.reason = "Manual takeover",
                                   !.arrival = Authority(c)]
          IN  IF ~conversations[c].present
              THEN FinishWith(p, k, "Conversation not found")
              ELSE Goto(p, WithConversation(k, c), "takeover_request")
    /\ UNCHANGED <<conversations, handoff_requests, messages, credits, accept_returns>>

\* HandoffService.get_handoff_request_by_conversation: the latest request
LatestRequest(c) ==
    IF RequestsOf(c) = {} THEN 0
    ELSE CHOOSE r \in RequestsOf(c) : \A q \in RequestsOf(c) : q <= r

\* take_over_conversation, handoff.py:328-350: create a request when the
\* conversation has none, accept the one it got when it is pending
take_over_request(p) ==
    /\ Resume(p, "takeover_request")
    /\ LET k == ctx[p]
           r == LatestRequest(k.conversation_uuid)
       IN  IF r = 0
           THEN Goto(p, k, "create_select")
           ELSE LET k2 == [k EXCEPT !.handoff_request_id = r,
                                    !.shr = handoff_requests[r]]
                IN  IF k2.shr.status = "pending"
                    THEN Goto(p, k2, "accept_select")
                    ELSE FinishWith(p, k2, "ok")
    /\ UNCHANGED <<conversations, handoff_requests, messages, credits, accept_returns>>

\* a listing that returns the requests of every status
get_all_handoff_requests(p) ==
    /\ Start(p)
    /\ Goto(p, [IdleCtx EXCEPT !.op = "pending",
                               !.reason = "Auto-created from conversation status",
                               !.requests = RequestIds],
            "pending_conversations")
    /\ UNCHANGED <<conversations, handoff_requests, messages, credits, accept_returns>>

\* GET /handoff/pending (handoff.py:139-143): the pending requests of the tenant
get_pending_handoff_requests(p) ==
    /\ Start(p)
    /\ Goto(p, [IdleCtx EXCEPT !.op = "pending",
                               !.reason = "Auto-created from conversation status",
                               !.requests = {r \in RequestIds :
                                               handoff_requests[r].status = "pending"}],
            "pending_conversations")
    /\ UNCHANGED <<conversations, handoff_requests, messages, credits, accept_returns>>

\* get_pending_handoff_requests, handoff.py:147-169: the conversations that are
\* "requested" and have no request in the list get one created
get_pending_conversations(p) ==
    /\ Resume(p, "pending_conversations")
    /\ LET k == ctx[p]
           requested == {c \in Convs : /\ conversations[c].present
                                       /\ conversations[c].handoff_status = "requested"}
           covered == {handoff_requests[r].conversation_uuid : r \in k.requests}
           k2 == [k EXCEPT !.loaded = requested,
                           !.sconv = [c \in Convs |->
                                        IF c \in requested THEN conversations[c]
                                        ELSE NoConversation],
                           !.todo = requested \ covered]
       IN  IF k2.todo = {}
           THEN FinishWith(p, k2, "ok")
           ELSE \E c \in k2.todo :
                   Goto(p, [k2 EXCEPT !.conversation_uuid = c], "create_select")
    /\ UNCHANGED <<conversations, handoff_requests, messages, credits, accept_returns>>

\* the checks of send_agent_message without the one on the assigned operator
AgentMessageErrorAnyOperator(row, u) ==
    IF ~row.present THEN "Conversation not found"
    ELSE IF row.handoff_status # "human"
    THEN "Conversation is not in human handoff mode"
    ELSE "ok"

\* HandoffService.send_agent_message, lines 128-135: the error the checks raise
\* for the conversation row and the calling operator, "ok" when they pass
AgentMessageError(row, u) ==
    IF ~row.present THEN "Conversation not found"
    ELSE IF row.handoff_status # "human"
    THEN "Conversation is not in human handoff mode"
    ELSE IF row.assigned_to_user_uuid # u
    THEN "You are not assigned to this conversation"
    ELSE "ok"

\* POST /handoff/message, HandoffService.send_agent_message lines 124-135
send_agent_message(p) ==
    /\ Start(p)
    /\ \E c \in Convs, u \in Users :
          LET k == [IdleCtx EXCEPT !.op = "agent", !.conversation_uuid = c,
                                   !.user_uuid = u]
              error == AgentMessageError(conversations[c], u)
          IN  IF error # "ok"
              THEN FinishWith(p, k, error)
              ELSE Goto(p, WithConversation(k, c), "agent_commit")
    /\ UNCHANGED <<conversations, handoff_requests, messages, credits, accept_returns>>

\* the conversation row after conversation.updated_at = utcnow()
TouchedConversation(row, snap) ==
    FlushConversation(row, snap, snap.handoff_status, snap.assigned_to_user_uuid, TRUE)

\* manager.send_message(frame, session_id), as the relay loop issues it: the
\* frames a handler has sent to its session so far, in order
SendFrames(k, fs) == [k EXCEPT !.frames = @ \o fs]

\* manager.broadcast_to_dashboard({"type": "new_message", "role": role}, chatbot_uuid)
BroadcastNewMessage(k, role) == [k EXCEPT !.broadcasts = Append(@, role)]

\* handoff.py:263-274: the frame {"type": "message", "role": "agent", ...} the
\* route sends to the session of the conversation
AgentFrames == <<"message:agent">>

\* HandoffService.send_agent_message, lines 137-150: the agent message is saved;
\* the route then sends it to the session and announces it to the dashboard
\* (handoff.py:263-286)
send_agent_message_commit(p) ==
    /\ Resume(p, "agent_commit")
    /\ LET k == ctx[p]
           c == k.conversation_uuid
           snap == LoadConversation(k, c)
       IN  /\ messages' = Append(messages, NewMessage(c, "agent"))
           /\ conversations' =
                 [conversations EXCEPT ![c] = TouchedConversation(@, snap)]
           /\ FinishWith(p, BroadcastNewMessage(
                                SendFrames([k EXCEPT !.persisted = TRUE],
                                           AgentFrames),
                                "agent"),
                         "ok")
    /\ UNCHANGED <<handoff_requests, credits, accept_returns>>

\* DELETE /chat/{chatbot}/conversations/cleanup (chat.py:853-880): conversations
\* without messages are deleted; a request row that references one of them makes
\* the commit fail on the foreign key and nothing is deleted
cleanup_empty_conversations(p) ==
    /\ Start(p)
    /\ LET empty == {c \in Convs : conversations[c].present /\ ~HasMessages(c)}
           k == [IdleCtx EXCEPT !.op = "cleanup"]
       IN  /\ empty # {}
           /\ IF \E c \in empty : RequestsOf(c) # {}
              THEN /\ FinishWith(p, k, "IntegrityError")
                   /\ UNCHANGED conversations
              ELSE /\ conversations' = [c \in Convs |->
                          IF c \in empty THEN NoConversation ELSE conversations[c]]
                   /\ FinishWith(p, k, "ok")
    /\ UNCHANGED <<handoff_requests, messages, credits, accept_returns>>


\* ------------------------------------------------------------------ Message Relay
\* texts of the exceptions retrieval and the generator raise (str(e) of an
\* exception of the vector store or of the LLM client); "" is an exception
\* without arguments
ExceptionTexts == {"", "Connection error.", "Incorrect API key provided: sk-1"}

\* chat.py:379: error_message = str(e) if str(e) else "Failed to process message"
ErrorMessage(e) == IF e # "" THEN e ELSE "Failed to process message"

\* chat.py:369-383: the except block around the streamed reply stops the typing
\* indicator and sends the error; the REST endpoint has no session to write to
StreamError(k, e) ==
    IF k.op = "ws"
    THEN [SendFrames(k, <<"typing:false", "error">>)
             EXCEPT !.detail = e, !.error_message = ErrorMessage(e)]
    ELSE k

\* a branch selection without the handoff-requested case
BranchWithoutRequested(hs) ==
    IF hs = "human" THEN "ws_human" ELSE "typing"

\* chat.py:228, 263, 299: the branch the refreshed handoff_status selects
BranchOf(hs) ==
    IF hs = "human" THEN "ws_human"
    ELSE IF hs = "requested" THEN "ws_requested"
    ELSE "typing"

\* websocket_endpoint, chat.py:155-297: a non-empty "message" frame arrives on a
\* connection whose loop is bound to conversation c; the conversation is
\* refreshed from the store and its handoff_status selects the branch
websocket_endpoint(p) ==
    /\ Start(p)
    /\ \E c \in Convs, explicit \in BOOLEAN :
          LET k == [IdleCtx EXCEPT !.op = "ws", !.conversation_uuid = c,
                                   !.explicit = explicit, !.arrival = Authority(c)]
          IN  IF ~conversations[c].present
              THEN FinishWith(p, k, "WebSocket error")
              ELSE IF BranchOf(conversations[c].handoff_status) = "typing"
              THEN Goto(p, SendFrames(k, <<"typing:true">>), "typing")
              ELSE Goto(p, k, BranchOf(conversations[c].handoff_status))
    /\ UNCHANGED <<conversations, handoff_requests, messages, credits, accept_returns>>

\* the commit that saves a customer message and touches the conversation; after
\* is the handler's context after the sends that follow the commit
SaveUserMessage(p, after) ==
    LET k == ctx[p]
        c == k.conversation_uuid
    IN  IF ~conversations[c].present
        THEN /\ FinishWith(p, k, "WebSocket error")
             /\ UNCHANGED <<conversations, messages>>
        ELSE /\ messages' = Append(messages, NewMessage(c, "user"))
             /\ conversations' = [conversations EXCEPT
                    ![c] = TouchedConversation(@, LoadConversation(k, c))]
             /\ FinishWith(p, [after EXCEPT !.persisted = TRUE], "ok")

\* websocket_endpoint, chat.py:228-260: human handoff mode; the message is
\* saved and announced to the dashboard, nothing is sent to the session
websocket_human(p) ==
    /\ Resume(p, "ws_human")
    /\ SaveUserMessage(p, BroadcastNewMessage(ctx[p], "user"))
    /\ UNCHANGED <<handoff_requests, credits, accept_returns>>

\* chat.py:291-296: the fixed frame {"type": "message", "role": "assistant",
\* "content": "Your message has been received. ..."}
RequestedFrames == <<"message:received">>

\* websocket_endpoint, chat.py:263-297: handoff requested; the message is saved
\* and announced to the dashboard, then acknowledged to the session
websocket_requested(p) ==
    /\ Resume(p, "ws_requested")
    /\ SaveUserMessage(p, SendFrames(BroadcastNewMessage(ctx[p], "user"),
                                     RequestedFrames))
    /\ UNCHANGED <<handoff_requests, credits, accept_returns>>

\* websocket_endpoint, chat.py:299-305: await of the typing frame
websocket_typing(p) ==
    /\ Resume(p, "typing")
    /\ Goto(p, ctx[p], "has_credits")
    /\ UNCHANGED <<conversations, handoff_requests, messages, credits, accept_returns>>

\* POST /chat/{chatbot}/send (chat.py:396-435): the conversation of the session
\* is looked up; its handoff_status is not read
send_message(p) ==
    /\ Start(p)
    /\ \E c \in Convs, explicit \in BOOLEAN :
          /\ conversations[c].present
          /\ Goto(p, [IdleCtx EXCEPT !.op = "rest", !.conversation_uuid = c,
                                     !.explicit = explicit, !.arrival = Authority(c)],
                  "has_credits")
    /\ UNCHANGED <<conversations, handoff_requests, messages, credits, accept_returns>>

\* a preparation that neither checks nor deducts credits
has_credits_skipped(p) ==
    /\ Resume(p, "has_credits")
    /\ Goto(p, ctx[p], "persist_user_message")
    /\ UNCHANGED <<conversations, handoff_requests, messages, credits, accept_returns>>

\* CreditsService.has_credits_for_chatbot via _prepare_chat_run (chat_service.py:264)
has_credits_for_chatbot(p) ==
    /\ Resume(p, "has_credits")
    /\ IF credits > 0
       THEN Goto(p, [ctx[p] EXCEPT !.scredits = credits], "deduct_credit")
       ELSE FinishWith(p, StreamError(ctx[p], "No message credits remaining"),
                       "No message credits remaining")
    /\ UNCHANGED <<conversations, handoff_requests, messages, credits, accept_returns>>

\* the balance deduct_credit_for_chatbot writes: the owner object the session
\* already holds, minus the amount
DeductedCredits(k) == k.scredits - 1

\* CreditsService.deduct_credit_for_chatbot (credits_service.py:95-106)
deduct_credit_for_chatbot(p) ==
    /\ Resume(p, "deduct_credit")
    /\ credits' = DeductedCredits(ctx[p])
    /\ Goto(p, [Expired(ctx[p]) EXCEPT !.deducted = TRUE], "persist_user_message")
    /\ UNCHANGED <<conversations, handoff_requests, messages, accept_returns>>

\* where the caller of _prepare_chat_run awaits next
AfterPrepare(k) == IF k.op = "ws" THEN "stream_message" ELSE "process_message"

\* ChatService._prepare_chat_run, chat_service.py:272-324: the customer message
\* is saved; update_conversation_details reloads the conversation and, when it
\* extracts a detail, commits again (which expires the reloaded object)
prepare_chat_run(p) ==
    /\ Resume(p, "persist_user_message")
    /\ LET k == ctx[p]
           c == k.conversation_uuid
       IN  IF ~conversations[c].present
           THEN /\ FinishWith(p, StreamError(k, "Conversation not found"),
                           "Conversation not found")
                /\ UNCHANGED messages
           ELSE /\ messages' = Append(messages, NewMessage(c, "user"))
                /\ \E updated \in BOOLEAN :
                      LET k2 == [k EXCEPT !.persisted = TRUE]
                      IN  Goto(p, IF updated THEN Expired(k2)
                                  ELSE WithConversation(Expired(k2), c),
                               AfterPrepare(k))
    /\ UNCHANGED <<conversations, handoff_requests, credits, accept_returns>>

\* the deltas one streamed generation can hand to on_chunk (chat.py:311-321)
Chunks == {<<>>, <<"message_chunk">>, <<"message_chunk", "message_chunk">>}

\* ChatService.stream_message, chat_service.py:439-470: retrieval and the streamed
\* generation, every delta sent to the session as a message_chunk frame; no
\* handoff classifier and no create_handoff_request on this path
stream_message(p) ==
    /\ Resume(p, "stream_message")
    /\ \E outcome \in {"answer", "error"}, chunks \in Chunks :
          LET k == SendFrames([ctx[p] EXCEPT !.generated = TRUE], chunks)
          IN  IF outcome = "error"
              THEN \E e \in ExceptionTexts : FinishWith(p, StreamError(k, e), "error")
              ELSE Goto(p, k, "stream_commit")
    /\ UNCHANGED <<conversations, handoff_requests, messages, credits, accept_returns>>

\* ChatService.stream_message, chat_service.py:472-486: the reply is saved; the
\* relay loop then stops the typing indicator, completes the message and
\* announces it to the dashboard (chat.py:333-367)
stream_message_commit(p) ==
    /\ Resume(p, "stream_commit")
    /\ LET k == ctx[p]
           c == k.conversation_uuid
       IN  /\ messages' = Append(messages, NewMessage(c, "assistant"))
           /\ conversations' = [conversations EXCEPT
                  ![c] = TouchedConversation(@, LoadConversation(k, c))]
           /\ FinishWith(p, BroadcastNewMessage(
                                SendFrames(k, <<"typing:false", "message_complete">>),
                                "assistant"),
                         "ok")
    /\ UNCHANGED <<handoff_requests, credits, accept_returns>>

\* ChatService.process_message, chat_service.py:357-403: the explicit-request
\* classifier and the generator are awaited; the reply is added to the session
\* and a handoff request is created when either asks for it
process_message(p) ==
    /\ Resume(p, "process_message")
    /\ \E outcome \in {"answer", "cannot_answer", "error"} :
          LET offer == (outcome = "cannot_answer") \/ ctx[p].explicit
              k == [ctx[p] EXCEPT
                      !.generated = TRUE, !.ai_added = TRUE,
                      !.should_offer_handoff = offer,
                      !.reason = IF ctx[p].explicit
                                 THEN "User explicitly requested customer service"
                                 ELSE "AI determined handoff is needed"]
          IN  IF outcome = "error"
              THEN FinishWith(p, [k EXCEPT !.ai_added = FALSE], "error")
              ELSE IF offer
              THEN Goto(p, k, "create_select")
              ELSE Goto(p, k, "process_message_commit")
    /\ UNCHANGED <<conversations, handoff_requests, messages, credits, accept_returns>>

\* ChatService.process_message, chat_service.py:410-416: the final commit
process_message_commit(p) ==
    /\ Resume(p, "process_message_commit")
    /\ LET k == ctx[p]
           c == k.conversation_uuid
       IN  /\ messages' = IF k.ai_added
                          THEN Append(messages, NewMessage(c, "assistant"))
                          ELSE messages
           /\ conversations' = [conversations EXCEPT
                  ![c] = TouchedConversation(@, LoadConversation(k, c))]
           /\ FinishWith(p, k, "ok")
    /\ UNCHANGED <<handoff_requests, credits, accept_returns>>

\* ------------------------------------------------------------------ Connection Registry
\* dict assignment d[k] = v and deletion del d[k]
Put(d, k, v) == [x \in DOMAIN d \cup {k} |-> IF x = k THEN v ELSE d[x]]

Del(d, k) == [x \in DOMAIN d \ {k} |-> d[x]]

\* d[k] of a dict of sets, the empty set for a key that is not in it
Group(d, k) == IF k \in DOMAIN d THEN d[k] ELSE {}

\* session_id.startswith("dashboard_")
IsDashboard(s) == s \in DashboardSessionIds

\* the three dicts of the ConnectionManager singleton
Registry ==
    [active_connections |-> active_connections,
     dashboard_connections |-> dashboard_connections,
     dashboard_session_map |-> dashboard_session_map]

SetRegistry(reg) ==
    /\ active_connections' = reg.active_connections
    /\ dashboard_connections' = reg.dashboard_connections
    /\ dashboard_session_map' = reg.dashboard_session_map

\* ConnectionManager.connect, websocket_manager.py:20-30
Connect(reg, w, s, b) ==
    IF b # None /\ IsDashboard(s)
    THEN [reg EXCEPT
            !.dashboard_connections = Put(@, b, Group(@, b) \cup {w}),
            !.dashboard_session_map = Put(@, s, b)]
    ELSE [reg EXCEPT
            !.active_connections = Put(@, s, Group(@, s) \cup {w})]

\* set.discard followed by "if not d[k]: del d[k]"
DiscardAndPrune(d, k, w) ==
    IF k \notin DOMAIN d THEN d
    ELSE IF d[k] \ {w} = {} THEN Del(d, k)
    ELSE Put(d, k, d[k] \ {w})

\* ConnectionManager.disconnect, websocket_manager.py:32-48
Disconnect(reg, w, s) ==
    IF s \in DOMAIN reg.dashboard_session_map
    THEN [reg EXCEPT
            !.dashboard_connections =
                DiscardAndPrune(@, reg.dashboard_session_map[s], w),
            !.dashboard_session_map = Del(@, s)]
    ELSE [reg EXCEPT !.active_connections = DiscardAndPrune(@, s, w)]

\* a failure handler that leaves the dead connection registered
SendFailedIgnored(reg, w, s) == reg

\* ConnectionManager.send_message, websocket_manager.py:59-62: the except branch
SendFailed(reg, w, s) == Disconnect(reg, w, s)

\* ConnectionManager.broadcast_to_dashboard, websocket_manager.py:78-86: the
\* except branch discards the connection when the reverse index holds a session
\* of that chatbot, and leaves an emptied group in place
BroadcastFailed(reg, w, b) ==
    IF /\ \E sid \in DOMAIN reg.dashboard_session_map :
             reg.dashboard_session_map[sid] = b
       /\ b \in DOMAIN reg.dashboard_connections
    THEN [reg EXCEPT !.dashboard_connections = Put(@, b, @[b] \ {w})]
    ELSE reg

\* connection.send_json raises on a socket the peer or the server has closed
SendRaises(w) == websockets[w].broken \/ websockets[w].state = "closed"

\* websocket_endpoint, chat.py:92-100: a client connects with its query
\* parameters and is registered
manager_connect(w) ==
    /\ websockets[w].state = "new"
    /\ \E s \in SessionIds, b \in Chatbots, k \in ClientIds :
          /\ websockets' = [websockets EXCEPT ![w] =
                [NewWebSocket EXCEPT !.state = "open", !.session_id = s,
                                     !.chatbot_uuid = b, !.client_uuid = k]]
          /\ SetRegistry(Connect(Registry, w, s, b))
    /\ sent' = NoCall
    /\ UNCHANGED sending
    /\ UNCHANGED handlers

\* the peer goes away: every later send on the socket raises
client_close(w) ==
    /\ websockets[w].state = "open"
    /\ ~websockets[w].broken
    /\ websockets' = [websockets EXCEPT ![w].broken = TRUE]
    /\ sent' = NoCall
    /\ UNCHANGED <<active_connections, dashboard_connections,
                   dashboard_session_map, sending>>
    /\ UNCHANGED handlers

\* websocket_endpoint, chat.py:114, 124, 149, 388-392: the relay loop ends and
\* unregisters its connection under its session_id
websocket_disconnect(w) ==
    /\ websockets[w].state = "open"
    /\ websockets' = [websockets EXCEPT ![w] =
          [NewWebSocket EXCEPT !.state = "closed"]]
    /\ SetRegistry(Disconnect(Registry, w, websockets[w].session_id))
    /\ sent' = NoCall
    /\ UNCHANGED sending
    /\ UNCHANGED handlers

\* a manager call that has tried connection w with registry reg as the result
Tried(call, w, reg) ==
    LET next == [call EXCEPT
                   !.todo = @ \ {w},
                   !.delivered = IF SendRaises(w) THEN @ ELSE @ \cup {w},
                   !.failed = IF SendRaises(w) THEN @ \cup {w} ELSE @]
    IN  /\ SetRegistry(reg)
        /\ IF next.todo = {}
           THEN sending' = NoCall /\ sent' = next
           ELSE sending' = next /\ sent' = NoCall

\* ConnectionManager.send_message, websocket_manager.py:50-54: the list copy
manager_send_message(s) ==
    /\ sending.op = "none"
    /\ LET call == [NoCall EXCEPT !.op = "send_message", !.key = s,
                                  !.connections = Group(active_connections, s),
                                  !.todo = Group(active_connections, s)]
       IN  IF s \in DOMAIN active_connections
           THEN sending' = call /\ sent' = NoCall
           ELSE sending' = NoCall /\ sent' = call
    /\ UNCHANGED <<active_connections, dashboard_connections,
                   dashboard_session_map, websockets>>
    /\ UNCHANGED handlers

\* ConnectionManager.send_message, websocket_manager.py:56-62: one iteration
manager_send_message_next(w) ==
    /\ sending.op = "send_message"
    /\ w \in sending.todo
    /\ Tried(sending, w,
             IF SendRaises(w) THEN SendFailed(Registry, w, sending.key)
             ELSE Registry)
    /\ UNCHANGED websockets
    /\ UNCHANGED handlers

\* ConnectionManager.broadcast_to_dashboard, websocket_manager.py:64-73
manager_broadcast_to_dashboard(b) ==
    /\ sending.op = "none"
    /\ LET call == [NoCall EXCEPT !.op = "broadcast_to_dashboard", !.key = b,
                                  !.connections = Group(dashboard_connections, b),
                                  !.todo = Group(dashboard_connections, b)]
       IN  IF b \notin DOMAIN dashboard_connections \/ dashboard_connections[b] = {}
           THEN sending' = NoCall /\ sent' = call
           ELSE sending' = call /\ sent' = NoCall
    /\ UNCHANGED <<active_connections, dashboard_connections,
                   dashboard_session_map, websockets>>
    /\ UNCHANGED handlers

\* ConnectionManager.broadcast_to_dashboard, websocket_manager.py:75-86: one
\* iteration
manager_broadcast_next(w) ==
    /\ sending.op = "broadcast_to_dashboard"
    /\ w \in sending.todo
    /\ Tried(sending, w,
             IF SendRaises(w) THEN BroadcastFailed(Registry, w, sending.key)
             ELSE Registry)
    /\ UNCHANGED websockets
    /\ UNCHANGED handlers

\* ------------------------------------------------------------------ Conversation binding
\* a lookup by the client identifier instead of the session identifier
ActiveConversationsOfClient(b, s, k) ==
    {c \in Convs : /\ conversations[c].present
                   /\ conversations[c].chatbot_uuid = b
                   /\ conversations[c].client_uuid = k
                   /\ conversations[c].status = "active"}

\* ChatService.get_or_create_conversation, chat_service.py:526-531: the select
ActiveConversations(b, s, k) ==
    {c \in Convs : /\ conversations[c].present
                   /\ conversations[c].chatbot_uuid = b
                   /\ conversations[c].session_id = s
                   /\ conversations[c].status = "active"}

\* ChatService.create_conversation, chat_service.py:498-505
CreatedConversation(b, s, k) ==
    [NewConversation EXCEPT !.chatbot_uuid = b, !.session_id = s,
                            !.client_uuid = k]

\* websocket_endpoint, chat.py:174-191: the first non-empty message of a widget
\* connection binds the loop to the active conversation of its chatbot and
\* session_id (.first() of the select), or to a new one under a fresh uuid
get_or_create_conversation(w) ==
    /\ websockets[w].state = "open"
    /\ ~IsDashboard(websockets[w].session_id)
    /\ websockets[w].conversation = None
    /\ LET b == websockets[w].chatbot_uuid
           s == websockets[w].session_id
           k == websockets[w].client_uuid
           found == ActiveConversations(b, s, k)
           fresh == {c \in Convs : ~conversations[c].present}
       IN  IF found # {}
           THEN /\ \E c \in found :
                      websockets' = [websockets EXCEPT ![w].conversation = c]
                /\ UNCHANGED conversations
           ELSE /\ fresh # {}
                /\ LET c == CHOOSE c \in fresh : TRUE
                   IN  /\ conversations' = [conversations EXCEPT
                              ![c] = CreatedConversation(b, s, k)]
                       /\ websockets' = [websockets EXCEPT ![w].conversation = c]
    /\ sent' = NoCall
    /\ UNCHANGED <<active_connections, dashboard_connections,
                   dashboard_session_map, sending>>
    /\ UNCHANGED <<handoff_requests, messages, credits, pc, ctx, ret,
                   accept_returns, deployment, calls, topic_stats>>

\* PATCH /chat/conversations/{uuid}/status (chat.py:775-794)
update_conversation_status(c) ==
    /\ conversations[c].present
    /\ \E status \in {"active", "archived"} :
          /\ status # conversations[c].status
          /\ conversations' = [conversations EXCEPT ![c].status = status]
    /\ sent' = NoCall
    /\ UNCHANGED <<active_connections, dashboard_connections,
                   dashboard_session_map, websockets, sending>>
    /\ UNCHANGED <<handoff_requests, messages, credits, pc, ctx, ret,
                   accept_returns, deployment, calls, topic_stats>>

\* ------------------------------------------------------------------ Customer details
\* values a customer gives for the identity columns; None is "not given"
CustomerNames == {"Ann", "Bob"}
CustomerEmails == {"ann@example.com", "bob@example.com"}
CustomerPhones == {"+15550100"}

\* update_conversation_details, lines 109-127: a column is written only while
\* it is empty (or, for the name, "Anonymous") and a value was extracted
ExtractedDetails(row, name, email, phone) ==
    [row EXCEPT
        !.customer_email = IF @ = None /\ email # None THEN email ELSE @,
        !.customer_phone = IF @ = None /\ phone # None THEN phone ELSE @,
        !.customer_name = IF @ \in {None, "Anonymous"} /\ name # None
                          THEN name ELSE @]

\* chat.py:420-424: the name and the email of the request are written when given
ProvidedDetails(row, name, email) ==
    [row EXCEPT !.customer_name = IF name # None THEN name ELSE @,
                !.customer_email = IF email # None THEN email ELSE @]

\* ConversationDetailsService.update_conversation_details, called by
\* _prepare_chat_run (chat_service.py:320-324) with the customer's message: what
\* the extractors find in the text is drawn from the customer values
update_conversation_details(p) ==
    /\ Start(p)
    /\ \E c \in Convs, name \in CustomerNames \cup {None},
          email \in CustomerEmails \cup {None}, phone \in CustomerPhones \cup {None} :
          /\ conversations[c].present
          /\ conversations' =
                [conversations EXCEPT ![c] = ExtractedDetails(@, name, email, phone)]
          /\ FinishWith(p, [IdleCtx EXCEPT !.op = "details", !.conversation_uuid = c],
                        "ok")
    /\ UNCHANGED <<handoff_requests, messages, credits, accept_returns>>

\* POST /chat/{chatbot}/send, chat.py:412-426: the customer columns of the
\* session's conversation as the endpoint commits them before process_message
send_message_customer_info(p) ==
    /\ Start(p)
    /\ \E c \in Convs, name \in CustomerNames \cup {None},
          email \in CustomerEmails \cup {None} :
          /\ conversations[c].present
          /\ conversations' =
                [conversations EXCEPT ![c] = ProvidedDetails(@, name, email)]
          /\ FinishWith(p, [IdleCtx EXCEPT !.op = "rest", !.conversation_uuid = c],
                        "ok")
    /\ UNCHANGED <<handoff_requests, messages, credits, accept_returns>>

\* ------------------------------------------------------------------ Message annotations
\* SubmitFeedbackRequest.feedback (chat.py:86-87)
Feedbacks == {"like", "dislike"}

\* the messages of c1 that exist when classification and feedback start: the
\* customer message and the reply of one completed exchange
InitTopics ==
    /\ InitStoreOf(<<NewMessage("c1", "user"), NewMessage("c1", "assistant")>>)
    /\ deployment = "workers"

\* tasks.py:384-393: the task loads the message and returns at once when the
\* message is gone or already has a topic; otherwise it calls the classifier
classify_message_topic(p) ==
    /\ Start(p)
    /\ \E i \in 1..(Len(messages) + 1) :
          LET k == [IdleCtx EXCEPT !.op = "classify", !.message_id = i]
          IN  IF i \notin DOMAIN messages
              THEN FinishWith(p, k, "Message not found")
              ELSE IF messages[i].topic # None
              THEN FinishWith(p, k, "ok")
              ELSE Goto(p, k, "classify_llm")
    /\ UNCHANGED <<conversations, handoff_requests, messages, credits, accept_returns>>

\* tasks.py:435-470: the classifier has answered; an empty topic ends the task,
\* any other is written to the message the task loaded, and the topic's
\* TopicStat row is created with message_count 1 or incremented
classify_message_topic_commit(p) ==
    /\ Turn(p)
    /\ pc[p] = "classify_llm"
    /\ \E topic \in Topics \cup {""} :
          LET k == ctx[p]
              i == k.message_id
          IN  IF topic = ""
              THEN /\ FinishWith(p, k, "None")
                   /\ UNCHANGED <<messages, topic_stats>>
              ELSE /\ messages' = [messages EXCEPT ![i].topic = topic]
                   /\ topic_stats' = [topic_stats EXCEPT ![topic] = @ + 1]
                   /\ FinishWith(p, k, "ok")
    /\ UNCHANGED <<conversations, handoff_requests, credits, accept_returns>>
    /\ UNCHANGED <<calls, deployment>>
    /\ UNCHANGED registry

\* POST /chat/messages/{message_id}/feedback (chat.py:797-842)
submit_feedback(p) ==
    /\ Start(p)
    /\ \E i \in 1..(Len(messages) + 1), feedback \in Feedbacks :
          LET k == [IdleCtx EXCEPT !.op = "feedback", !.message_id = i]
          IN  IF i \notin DOMAIN messages
              THEN /\ FinishWith(p, k, "Message not found")
                   /\ UNCHANGED messages
              ELSE IF messages[i].role # "assistant"
              THEN /\ FinishWith(p, k,
                                 "Feedback can only be submitted for assistant messages")
                   /\ UNCHANGED messages
              ELSE /\ messages' = [messages EXCEPT ![i].feedback = feedback]
                   /\ FinishWith(p, k, "ok")
    /\ UNCHANGED <<conversations, handoff_requests, credits, accept_returns>>

\* ------------------------------------------------------------------ specification
Next ==
    \E p \in Procs :
        \/ create_handoff_request_select(p)
        \/ create_handoff_request_commit(p)
        \/ create_handoff_request(p)
        \/ accept_handoff_request(p)
        \/ accept_handoff_request_select(p)
        \/ accept_handoff_request_commit(p)
        \/ take_over_conversation(p)
        \/ take_over_request(p)
        \/ get_pending_handoff_requests(p)
        \/ get_pending_conversations(p)
        \/ send_agent_message(p)
        \/ send_agent_message_commit(p)
        \/ cleanup_empty_conversations(p)
        \/ websocket_endpoint(p)
        \/ websocket_human(p)
        \/ websocket_requested(p)
        \/ websocket_typing(p)
        \/ send_message(p)
        \/ has_credits_for_chatbot(p)
        \/ deduct_credit_for_chatbot(p)
        \/ prepare_chat_run(p)
        \/ stream_message(p)
        \/ stream_message_commit(p)
        \/ process_message(p)
        \/ process_message_commit(p)

\* one process, one event loop
Spec == Init /\ [][Next]_vars

\* the handoff endpoints served by several worker processes
NextWorkers ==
    \E p \in Procs :
        \/ create_handoff_request(p)
        \/ create_handoff_request_select(p)
        \/ create_handoff_request_commit(p)
        \/ accept_handoff_request(p)
        \/ accept_handoff_request_select(p)
        \/ accept_handoff_request_commit(p)
        \/ take_over_conversation(p)
        \/ take_over_request(p)
        \/ get_pending_handoff_requests(p)
        \/ get_pending_conversations(p)

SpecWorkers == InitWorkers /\ [][NextWorkers]_vars

\* Relay loops of the automated path served by several worker processes: each
\* loop has its own session, the credit balance is the one row they share.
NextCredits ==
    \E p \in Procs :
        \/ websocket_endpoint(p)
        \/ websocket_typing(p)
        \/ has_credits_for_chatbot(p)
        \/ deduct_credit_for_chatbot(p)
        \/ prepare_chat_run(p)
        \/ stream_message(p)
        \/ stream_message_commit(p)

SpecCredits == InitWorkers /\ [][NextCredits]_vars

\* The customer columns of a conversation under the two operations that write
\* them: detail extraction from a message and the REST send endpoint.
NextDetails ==
    \E p \in Procs :
        \/ update_conversation_details(p)
        \/ send_message_customer_info(p)

SpecDetails == Init /\ [][NextDetails]_vars

\* Topic classification tasks on the Celery workers and the feedback endpoint,
\* each with its own session on the shared store.
NextTopics ==
    \E p \in Procs :
        \/ classify_message_topic(p)
        \/ classify_message_topic_commit(p)
        \/ submit_feedback(p)

SpecTopics == InitTopics /\ [][NextTopics]_vars

\* the connection manager and the relay loops of one server process
NextRegistry ==
    \/ \E w \in WebSockets :
          \/ manager_connect(w)
          \/ client_close(w)
          \/ websocket_disconnect(w)
          \/ manager_send_message_next(w)
          \/ manager_broadcast_next(w)
    \/ \E s \in SessionIds : manager_send_message(s)
    \/ \E b \in Chatbots : manager_broadcast_to_dashboard(b)

SpecRegistry == Init /\ [][NextRegistry]_vars

\* the relay loops that bind a conversation on their first message
NextBinding ==
    \/ \E w \in WebSockets :
          \/ manager_connect(w)
          \/ websocket_disconnect(w)
          \/ get_or_create_conversation(w)
    \/ \E c \in Convs : update_conversation_status(c)

SpecBinding == Init /\ [][NextBinding]_vars

\* ------------------------------------------------------------------ properties
\* the committed store
store == <<conversations, handoff_requests, messages, credits>>

\* the authority of a conversation moves from old to new along the state machine
Advances(old, new) ==
    \/ old = "ai" /\ new = "requested"
    \/ old = "requested" /\ new = "human"

\* C1: the response authority of a conversation only ever moves automated ->
\* handoff-requested -> human-assigned; no step skips a state or moves backwards,
\* createRequest on a human-assigned conversation included.
C1_AuthorityOnlyAdvances ==
    [][\A c \in Convs :
          (conversations[c].present /\ conversations'[c].present
           /\ conversations'[c].handoff_status # conversations[c].handoff_status)
          => Advances(conversations[c].handoff_status,
                      conversations'[c].handoff_status)]_vars

\* C2: a conversation has an assigned operator exactly when its response
\* authority is human-assigned.
C2_AssignedIffHuman ==
    \A c \in Convs :
        conversations[c].present =>
            (conversations[c].assigned_to_user_uuid # None
             <=> conversations[c].handoff_status = "human")

\* C3: of two accepts of the same pending request whose steps interleave, one
\* succeeds: no request is accepted by more than one successful call.
C3_OneAcceptSucceeds ==
    \A r \in DOMAIN accept_returns : accept_returns[r] <= 1

\* C4: a conversation never has more than one pending handoff request, also
\* when create_handoff_request runs concurrently for it.
C4_AtMostOnePending ==
    \A c \in Convs : Cardinality(PendingOf(c)) <= 1

\* C5: createRequest on a conversation that has a pending request returns that
\* request and changes nothing: no row is added, the request (its reason
\* included) and the conversation (its authority included) stay as they are.
C5_CreateIdempotent ==
    [][(/\ ret'.op = "create"
        /\ ret'.status = "ok"
        /\ PendingOf(ret'.conversation_uuid) # {})
       => /\ ret'.handoff_request_id \in PendingOf(ret'.conversation_uuid)
          /\ handoff_requests' = handoff_requests
          /\ conversations' = conversations]_vars

\* a create that found the existing request has returned: the reason it was
\* called with is not the reason of the request it returned
C5_Witness ==
    /\ ret.op = "create"
    /\ ret.status = "ok"
    /\ handoff_requests[ret.handoff_request_id].status = "pending"
    /\ handoff_requests[ret.handoff_request_id].reason # ret.reason

\* C6: accept is all or nothing: the step that marks a request accepted by an
\* operator also makes its conversation human-assigned to that operator, and a
\* conversation becomes human-assigned only in a step that accepts one of its
\* pending requests for the same operator.
C6_AcceptAtomic ==
    [][/\ \A r \in RequestIds :
             (handoff_requests[r].status = "pending"
              /\ handoff_requests'[r].status = "accepted")
             => LET c == handoff_requests[r].conversation_uuid
                IN  /\ conversations'[c].present
                    /\ conversations'[c].handoff_status = "human"
                    /\ conversations'[c].assigned_to_user_uuid =
                          handoff_requests'[r].accepted_by_user_uuid
       /\ \A c \in Convs :
             (conversations[c].handoff_status # "human"
              /\ conversations'[c].handoff_status = "human")
             => \E r \in RequestIds :
                   /\ handoff_requests[r].conversation_uuid = c
                   /\ handoff_requests[r].status = "pending"
                   /\ handoff_requests'[r].status = "accepted"
                   /\ handoff_requests'[r].accepted_by_user_uuid =
                         conversations'[c].assigned_to_user_uuid]_vars

\* an accept has returned: the request is accepted and its conversation is
\* human-assigned to the accepting operator
C6_Witness ==
    /\ ret.op = "accept"
    /\ ret.status = "ok"
    /\ handoff_requests[ret.handoff_request_id].status = "accepted"
    /\ handoff_requests[ret.handoff_request_id].accepted_by_user_uuid = ret.user_uuid
    /\ conversations[ret.conversation_uuid].handoff_status = "human"
    /\ conversations[ret.conversation_uuid].assigned_to_user_uuid = ret.user_uuid

\* C7: accept of a request that does not exist fails with "not found", accept
\* of a request that is not pending fails with "already <status>", and a failed
\* accept changes nothing in the store.
C7_AcceptRejects ==
    [][ret'.op = "accept"
       => LET r == ret'.handoff_request_id
          IN  /\ r \notin RequestIds
                 => ret'.status = "Handoff request not found"
              /\ (r \in RequestIds /\ handoff_requests[r].status # "pending")
                 => ret'.status = "Handoff request is already accepted"
              /\ ret'.status # "ok" => store' = store]_vars

\* an accept of an already accepted request has failed
C7_Witness ==
    /\ ret.op = "accept"
    /\ ret.status = "Handoff request is already accepted"
    /\ handoff_requests[ret.handoff_request_id].status = "accepted"

\* C8: send_agent_message succeeds exactly when the conversation is
\* human-assigned to the calling operator; a failed call saves no message and
\* does not touch the conversation (updated_at included); a successful call
\* appends exactly one agent message and stamps updated_at.
C8_AgentMessageGuarded ==
    [][ret'.op = "agent"
       => LET c == ret'.conversation_uuid
              u == ret'.user_uuid
              allowed == /\ conversations[c].present
                         /\ conversations[c].handoff_status = "human"
                         /\ conversations[c].assigned_to_user_uuid = u
          IN  /\ ret'.status = "ok" <=> allowed
              /\ ret'.status # "ok" => store' = store
              /\ ret'.status = "ok"
                 => /\ messages' = Append(messages, NewMessage(c, "agent"))
                    /\ conversations'[c].updated_at # conversations[c].updated_at
                    /\ conversations'[c].handoff_status = "human"
                    /\ conversations'[c].assigned_to_user_uuid = u]_vars

\* the assigned operator has sent a message: it is the last row of messages
C8_Witness ==
    /\ ret.op = "agent"
    /\ ret.status = "ok"
    /\ messages # <<>>
    /\ messages[Len(messages)] = NewMessage(ret.conversation_uuid, "agent")

\* C9: a customer message that arrives while the store says human-assigned is
\* saved, the generator is not invoked and no credit is deducted, on the
\* websocket path and on the REST send path.
C9_HumanModeNoGenerator ==
    (ret.op \in {"ws", "rest"} /\ ret.arrival = "human")
    => (ret.persisted /\ ~ret.generated /\ ~ret.deducted)

\* C10: a customer message that arrives while the authority is automated and
\* that explicitly asks for a human leaves, when its handling completes, a
\* pending handoff request and the authority handoff-requested, on the
\* websocket path and on the REST send path.
C10_ExplicitRequestCreatesHandoff ==
    (ret.op \in {"ws", "rest"} /\ ret.status = "ok"
     /\ ret.arrival = "ai" /\ ret.explicit)
    => (/\ PendingOf(ret.conversation_uuid) # {}
        /\ Authority(ret.conversation_uuid) = "requested")

\* C11: a relay message that arrives while the authority is handoff-requested
\* persists exactly one customer message, issues one new-message broadcast to the
\* dashboard and exactly one fixed acknowledgment frame to the session, and does
\* not invoke the generator (no typing, chunk or message-complete frame).
C11_RequestedRelay ==
    [][(ret'.op = "ws" /\ ret'.arrival = "requested") =>
          /\ ret'.status = "ok"
          /\ messages' = Append(messages, NewMessage(ret'.conversation_uuid, "user"))
          /\ ret'.broadcasts = <<"user">>
          /\ ret'.frames = <<"message:received">>
          /\ ~ret'.generated /\ ~ret'.deducted]_vars

C11_Witness ==
    /\ ret.op = "ws" /\ ret.arrival = "requested" /\ ret.status = "ok"
    /\ ret.persisted /\ ret.frames = <<"message:received">>
    /\ \E r \in RequestIds : handoff_requests[r].status = "pending"

\* C12: the credit deduction completes before the generator is invoked; when the
\* credit check fails the generator is not invoked, no message is persisted, and
\* the session receives typing:false then an error frame, and no message_chunk
\* or message_complete frame.
C12_CreditsBeforeGenerator ==
    [][/\ \A p \in Procs : ctx'[p].generated => ctx'[p].deducted
       /\ ret'.generated => ret'.deducted
       /\ ret'.status = "No message credits remaining" =>
             /\ ~ret'.generated /\ ~ret'.deducted /\ ~ret'.persisted
             /\ messages' = messages
             /\ credits' = credits
             /\ ret'.op = "ws" =>
                   ret'.frames = <<"typing:true", "typing:false", "error">>]_vars

C12_Witness ==
    /\ ret.op = "ws" /\ ret.status = "No message credits remaining"
    /\ ret.frames = <<"typing:true", "typing:false", "error">>
    /\ credits = 0

\* the frames handler p has issued to its session after the step
FramesAfter(p) == IF ret'.proc = p THEN ret'.frames ELSE ctx'[p].frames

\* the conversation (hence the session) handler p serves after the step
ConversationAfter(p) ==
    IF ret'.proc = p THEN ret'.conversation_uuid ELSE ctx'[p].conversation_uuid

\* handler q has started an automated reply and has not sent its last frame
OpenReply(q) == ctx[q].op = "ws" /\ ctx[q].frames # <<>>

\* C20: the frames of one automated reply reach the session as one uninterrupted
\* run: while a reply is open no other relay loop of the same session issues a
\* frame to that session.
C20_ReplyFramesUninterrupted ==
    [][\A p, q \in Procs :
          (p # q /\ OpenReply(q)
                 /\ ConversationAfter(p) = ctx[q].conversation_uuid)
          => FramesAfter(p) = ctx[p].frames]_vars

\* C13: a send to a session reaches every connection of the session group even
\* when some sends fail: every connection of the group is tried once, a
\* connection fails only when its socket is dead, each failed connection is
\* removed from the group, and every other connection receives the payload.
C13_SendIsolatesFailures ==
    sent.op = "send_message" =>
        /\ sent.todo = {}
        /\ sent.delivered \cup sent.failed = sent.connections
        /\ sent.delivered \cap sent.failed = {}
        /\ \A w \in sent.failed :
              SendRaises(w) /\ w \notin Group(active_connections, sent.key)

C13_Witness ==
    /\ sent.op = "send_message"
    /\ Cardinality(sent.delivered) = 2
    /\ Cardinality(sent.failed) = 1
    /\ Group(active_connections, sent.key) = sent.delivered

\* C14: a broadcast to a chatbot's dashboard group isolates the failures: every
\* connection of the group is tried once and, when the call returns, no failed
\* connection is a member of the group any more, whatever the reverse index holds.
C14_BroadcastRemovesFailed ==
    sent.op = "broadcast_to_dashboard" =>
        /\ sent.delivered \cup sent.failed = sent.connections
        /\ \A w \in sent.failed :
              w \notin Group(dashboard_connections, sent.key)

\* the dashboard connections of chatbot b that are registered and not unregistered
RegisteredDashboards(b) ==
    {w \in WebSockets : /\ websockets[w].state = "open"
                        /\ IsDashboard(websockets[w].session_id)
                        /\ websockets[w].chatbot_uuid = b}

\* C15: while a chatbot has no registered dashboard connection (none registered,
\* or all of them unregistered) a broadcast to it attempts no send: the call
\* returns at once and the registry is unchanged.
C15_NoDashboardNoSend ==
    [][\A b \in Chatbots :
          (/\ RegisteredDashboards(b) = {}
           /\ sending.op = "none"
           /\ \/ sending'.op = "broadcast_to_dashboard" /\ sending'.key = b
              \/ sent'.op = "broadcast_to_dashboard" /\ sent'.key = b)
          => /\ sent'.op = "broadcast_to_dashboard"
             /\ sent'.connections = {}
             /\ UNCHANGED <<active_connections, dashboard_connections,
                            dashboard_session_map>>]_vars

\* connection w is a member of some group of the registry reg
Member(reg, w) ==
    \/ \E s \in DOMAIN reg.active_connections : w \in reg.active_connections[s]
    \/ \E b \in DOMAIN reg.dashboard_connections : w \in reg.dashboard_connections[b]

\* C16: unregistering a connection under its session key removes it from every
\* group, leaves no group that the removal emptied, keeps the reverse-index
\* entry that another registered connection of the same key still needs, and
\* is idempotent.
C16_UnregisterRemoves ==
    [][\A w \in WebSockets :
          (websockets[w].state = "open" /\ websockets'[w].state = "closed") =>
             LET s == websockets[w].session_id
                 once == Disconnect(Registry, w, s)
             IN  /\ ~Member(Registry, w)'
                 /\ \A g \in DOMAIN active_connections' :
                       active_connections'[g] = {} => active_connections[g] = {}
                 /\ \A g \in DOMAIN dashboard_connections' :
                       dashboard_connections'[g] = {} => dashboard_connections[g] = {}
                 /\ (\E v \in WebSockets \ {w} :
                        /\ websockets[v].state = "open"
                        /\ websockets[v].session_id = s
                        /\ s \in DOMAIN dashboard_session_map)
                    => s \in DOMAIN dashboard_session_map'
                 /\ Disconnect(once, w, s) = once]_vars

\* C17: registering a connection adds it to the group of its session key, and a
\* dashboard-keyed connection also to the dashboard group of its chatbot and to
\* the reverse index, so that a send to the session key reaches it.
C17_RegisterJoinsSessionGroup ==
    [][\A w \in WebSockets :
          (websockets[w].state = "new" /\ websockets'[w].state = "open") =>
             LET s == websockets'[w].session_id
                 b == websockets'[w].chatbot_uuid
             IN  /\ w \in Group(active_connections', s)
                 /\ IsDashboard(s) =>
                       /\ w \in Group(dashboard_connections', b)
                       /\ s \in DOMAIN dashboard_session_map'
                       /\ dashboard_session_map'[s] = b]_vars

\* C18: a connection whose relay loop has ended is a member of no group.
C18_EndedLoopNotRegistered ==
    \A w \in WebSockets : websockets[w].state = "closed" => ~Member(Registry, w)

\* C19: the first message of a relay loop binds it to the active conversation of
\* its chatbot and session id, or to a new conversation of that session when
\* there is none; loops with different session ids never share a conversation,
\* also when they present the same client id.
C19_BoundBySession ==
    [][/\ \A w \in WebSockets :
             (websockets[w].conversation = None /\ websockets'[w].conversation # None) =>
                LET c == websockets'[w].conversation
                    active == {x \in Convs :
                                 /\ conversations[x].present
                                 /\ conversations[x].status = "active"
                                 /\ conversations[x].chatbot_uuid = websockets[w].chatbot_uuid
                                 /\ conversations[x].session_id = websockets[w].session_id}
                IN  IF active # {}
                    THEN c \in active /\ conversations' = conversations
                    ELSE /\ ~conversations[c].present
                         /\ conversations'[c].present
                         /\ conversations'[c].status = "active"
                         /\ \A x \in Convs \ {c} : conversations'[x] = conversations[x]
       /\ \A w \in WebSockets :
             websockets'[w].conversation # None =>
                /\ conversations'[websockets'[w].conversation].session_id
                      = websockets'[w].session_id
                /\ conversations'[websockets'[w].conversation].chatbot_uuid
                      = websockets'[w].chatbot_uuid
       /\ \A w, v \in WebSockets :
             (/\ websockets'[w].conversation # None
              /\ websockets'[v].conversation # None
              /\ websockets'[w].session_id # websockets'[v].session_id)
             => websockets'[w].conversation # websockets'[v].conversation]_vars

C19_Witness ==
    \E w, v \in WebSockets :
        /\ websockets[w].session_id = "s1" /\ websockets[v].session_id = "s2"
        /\ websockets[w].chatbot_uuid = websockets[v].chatbot_uuid
        /\ websockets[w].client_uuid = websockets[v].client_uuid
        /\ websockets[w].conversation = "c1" /\ websockets[v].conversation = "c2"

\* the last two frames of a frame sequence
LastTwo(fs) == IF Len(fs) < 2 THEN fs ELSE SubSeq(fs, Len(fs) - 1, Len(fs))

\* how many times frame f occurs in fs
RECURSIVE CountFrames(_, _)
CountFrames(fs, f) ==
    IF fs = <<>> THEN 0
    ELSE (IF Head(fs) = f THEN 1 ELSE 0) + CountFrames(Tail(fs), f)

\* C21: a relay message of a conversation that existed when its loop was bound,
\* arriving outside human and handoff-requested mode, whose handling fails ends
\* with typing:false followed by exactly one error frame, and the failure is
\* handled inside the loop (the loop does not end with "WebSocket error").
C21_AutomatedFailureFrames ==
    (/\ ret.op = "ws" /\ ret.conversation_uuid \in InitConvs
     /\ ret.arrival \notin {"human", "requested"}
     /\ ret.status # "ok")
    => (/\ ret.status # "WebSocket error"
        /\ LastTwo(ret.frames) = <<"typing:false", "error">>
        /\ CountFrames(ret.frames, "error") = 1)

\* the roles announced to the dashboard by the handler that has just finished
Announced == {ret.broadcasts[i] : i \in 1..Len(ret.broadcasts)}

\* C22: a handler of the relay loop or of the operator-message route that has
\* persisted a message has announced it to the dashboard: the customer message
\* in every mode (also when generation fails afterwards), the reply of a
\* completed automated exchange, and the operator message.
C22_PersistedIsBroadcast ==
    /\ (ret.op = "ws" /\ ret.persisted) => "user" \in Announced
    /\ (ret.op = "ws" /\ ret.persisted /\ ret.generated /\ ret.status = "ok")
          => "assistant" \in Announced
    /\ (ret.op = "agent" /\ ret.persisted) => "agent" \in Announced

\* C25: the error frame a session receives for a failed generation does not
\* depend on the text of the exception: the frame sent is the frame every other
\* exception text would have produced in the same run.
C25_ErrorFrameHidesDetail ==
    (ret.op = "ws" /\ ret.status = "error")
    => \A e \in ExceptionTexts : ErrorMessage(e) = ret.error_message

\* C28: a conversation that has been human-assigned to an operator keeps that
\* operator: no step of createRequest, acceptRequest or take-over replaces the
\* operator the store records for it by a different one.
C28_AssignedOperatorKept ==
    [][\A c \in Convs :
          (/\ conversations[c].present /\ conversations'[c].present
           /\ conversations[c].assigned_to_user_uuid # None)
          => conversations'[c].assigned_to_user_uuid
                = conversations[c].assigned_to_user_uuid]_vars

\* C27: when a take-over by operator X returns a request, the store holds that
\* request as accepted and the conversation as human-assigned to the operator
\* the request records as accepted-by; when the take-over started from
\* automated or handoff-requested authority that operator is X.
C27_TakeOverReturnsAssigned ==
    (ret.op = "takeover" /\ ret.status = "ok")
    => LET r == handoff_requests[ret.handoff_request_id]
           c == conversations[ret.conversation_uuid]
       IN  /\ r.status = "accepted"
           /\ c.handoff_status = "human"
           /\ c.assigned_to_user_uuid = r.accepted_by_user_uuid
           /\ ret.arrival \in {"ai", "requested"}
                 => r.accepted_by_user_uuid = ret.user_uuid

\* the pending requests the store holds
PendingRequests == {r \in RequestIds : handoff_requests[r].status = "pending"}

\* the conversations the store holds as handoff-requested
RequestedConversations ==
    {c \in Convs : conversations[c].present
                   /\ conversations[c].handoff_status = "requested"}

\* every handoff-requested conversation has exactly one pending request
Healed == \A c \in RequestedConversations : Cardinality(PendingOf(c)) = 1

SavedUserMessages ==
    Cardinality({i \in 1..Len(messages) : messages[i].role = "user"})

\* the handlings that have deducted their credit and not yet saved their message
DeductedInFlight ==
    Cardinality({p \in Procs : ctx[p].deducted /\ ~ctx[p].persisted})

\* C29: the credit balance is never negative and every handling that reaches
\* the generator is matched by its own decrement: the credits consumed equal
\* the number of handlings that have deducted, also when handlings of several
\* relay loops interleave between the credit check, the read of the balance
\* and the write of balance - 1.
C29_CreditsExact ==
    /\ credits >= 0
    /\ InitCredits - credits = SavedUserMessages + DeductedInFlight

\* C30: in every state the store holds at most one active conversation for a
\* chatbot and session id, and two open connections of one chatbot and session
\* id that are bound are bound to the same conversation.
C30_OneActiveConversation ==
    /\ \A b \in Chatbots, s \in SessionIds :
          Cardinality(ActiveConversations(b, s, None)) <= 1
    /\ \A w, v \in WebSockets :
          (/\ websockets[w].state = "open" /\ websockets[v].state = "open"
           /\ websockets[w].chatbot_uuid = websockets[v].chatbot_uuid
           /\ websockets[w].session_id = websockets[v].session_id
           /\ websockets[w].conversation # None
           /\ websockets[v].conversation # None)
          => websockets[w].conversation = websockets[v].conversation

\* a customer column holds a real value
RealValue(v) == v \notin {None, "", "Anonymous"}

\* C23: the customer identity columns are write-once: a name, an email or a
\* phone that holds a real value is not changed by any later operation, be it
\* detail extraction or a REST send that supplies a name or an email.
C23_CustomerDetailsWriteOnce ==
    [][\A c \in Convs :
          (conversations[c].present /\ conversations'[c].present)
          => /\ RealValue(conversations[c].customer_name)
                   => conversations'[c].customer_name = conversations[c].customer_name
             /\ RealValue(conversations[c].customer_email)
                   => conversations'[c].customer_email = conversations[c].customer_email
             /\ RealValue(conversations[c].customer_phone)
                   => conversations'[c].customer_phone = conversations[c].customer_phone]_vars

\* the sum of message_count over the topics of T
RECURSIVE MessageCount(_)
MessageCount(T) ==
    IF T = {} THEN 0
    ELSE LET t == CHOOSE t \in T : TRUE
         IN  topic_stats[t] + MessageCount(T \ {t})

\* the messages that have a topic
Classified == {i \in DOMAIN messages : messages[i].topic # None}

\* C24: the topic and the feedback of a message are set once: a step of a
\* repeated or concurrent classification, or of a second feedback submission,
\* leaves a stored topic and a stored feedback as they are, and the per-topic
\* counts count every classified message once.
C24_TopicAndFeedbackSetOnce ==
    [][/\ \A i \in DOMAIN messages :
             /\ messages[i].topic # None => messages'[i].topic = messages[i].topic
             /\ messages[i].feedback # None
                   => messages'[i].feedback = messages[i].feedback
       /\ MessageCount(Topics)' = Cardinality(Classified')]_vars

====
